---- MODULE Spec2Model ----
(***************************************************************************)
(* Model of the number-summing utilities of this repository:               *)
(*   sum_engine.py  (_to_decimal, safe_sum, numpy_sum, stream_sum,         *)
(*                   partial_sum_chunk, reduce_partials, compute_sum)      *)
(*   app.py         (the /sum endpoint)                                    *)
(*   adder.py       (parse_count, convert_to_decimal, safe_sum_decimals,   *)
(*                   choose_strategy_and_sum, interactive_input, run_cli)  *)
(*   adder1.py      (parse_count and main of the simple adder)             *)
(*                                                                         *)
(* Texts are sequences of one-character strings, so that str(), strip(),   *)
(* int() and Decimal() are computed character by character.  A Decimal is  *)
(* a record [k, sg, c, e]: kind, sign, coefficient (digits, least          *)
(* significant first, no high zeros) and exponent, as in Python's decimal  *)
(* module; arithmetic rounds to the context precision set by the code.     *)
(***************************************************************************)
EXTENDS Integers, Sequences, FiniteSets, TLC

----------------------------------------------------------------------------
(* Bounds of the model *)

\* longest input sequence given to a summing function
MaxLen == 3
\* longest text typed at the count prompt
MaxText == 3
\* most chunks a sequence is split into
MaxChunks == 3
\* most lines typed at the console in one run
MaxEntries == 4

(* getcontext().prec = 28 *)
Prec == 28

----------------------------------------------------------------------------
(* Characters and texts *)

Digits == <<"0", "1", "2", "3", "4", "5", "6", "7", "8", "9">>

IsDigit(ch) == \E i \in 1..10 : Digits[i] = ch

DigitVal(ch) == (CHOOSE i \in 1..10 : Digits[i] = ch) - 1

IsSpace(ch) == ch = " "

\* str.lower() on the letters that matter to Decimal()
Lower(ch) ==
  CASE ch = "N" -> "n" [] ch = "A" -> "a" [] ch = "I" -> "i" [] ch = "F" -> "f"
    [] ch = "E" -> "e" [] ch = "S" -> "s" [] ch = "T" -> "t" [] ch = "Y" -> "y"
    [] OTHER -> ch

RECURSIVE LStrip(_)
LStrip(s) == IF s # <<>> /\ IsSpace(Head(s)) THEN LStrip(Tail(s)) ELSE s

RECURSIVE RStrip(_)
RStrip(s) ==
  IF s # <<>> /\ IsSpace(s[Len(s)]) THEN RStrip(SubSeq(s, 1, Len(s) - 1)) ELSE s

\* str.strip()
strip(s) == RStrip(LStrip(s))

Reverse(s) == [i \in 1..Len(s) |-> s[Len(s) + 1 - i]]

RECURSIVE NatToStr(_)
NatToStr(n) ==
  IF n < 10 THEN <<Digits[n + 1]>> ELSE NatToStr(n \div 10) \o <<Digits[(n % 10) + 1]>>

\* str(int)
IntToStr(v) == IF v < 0 THEN <<"-">> \o NatToStr(-v) ELSE NatToStr(v)

\* str(float) of a float given in tenths: 35 is 3.5, 30 is 3.0
FloatToStr(t) ==
  LET a == IF t < 0 THEN -t ELSE t
  IN  (IF t < 0 THEN <<"-">> ELSE <<>>) \o NatToStr(a \div 10) \o <<".">>
        \o <<Digits[(a % 10) + 1]>>

\* digits (most significant first) to a natural number
RECURSIVE DigitsToNat(_)
DigitsToNat(s) ==
  IF s = <<>> THEN 0 ELSE 10 * DigitsToNat(SubSeq(s, 1, Len(s) - 1)) + DigitVal(s[Len(s)])

AllDigits(s) == \A i \in 1..Len(s) : IsDigit(s[i])

----------------------------------------------------------------------------
(* Python values given to the summing functions: an int, a float (in       *)
(* tenths) or a str                                                        *)

PyInt(v) == [ty |-> "int", v |-> v, s |-> <<>>]
PyFloat(t) == [ty |-> "float", v |-> t, s |-> <<>>]
PyStr(s) == [ty |-> "str", v |-> 0, s |-> s]

\* str(value)
str(x) ==
  CASE x.ty = "int" -> IntToStr(x.v)
    [] x.ty = "float" -> FloatToStr(x.v)
    [] OTHER -> x.s

----------------------------------------------------------------------------
(* decimal.Decimal *)

Fin(sg, c, e) == [k |-> "fin", sg |-> sg, c |-> c, e |-> e]
NaN == [k |-> "nan", sg |-> 0, c |-> <<>>, e |-> 0]
SNaN == [k |-> "snan", sg |-> 0, c |-> <<>>, e |-> 0]
Inf(sg) == [k |-> "inf", sg |-> sg, c |-> <<>>, e |-> 0]
\* Decimal(0)
Zero == Fin(0, <<>>, 0)
\* what a failed conversion or operation raises instead of returning
Raised(exc) == [k |-> exc, sg |-> 0, c |-> <<>>, e |-> 0]
IsDec(d) == d.k \in {"fin", "nan", "snan", "inf"}

Max(a, b) == IF a >= b THEN a ELSE b
Min(a, b) == IF a <= b THEN a ELSE b

Zeros(n) == [i \in 1..n |-> 0]

\* drop high-order zeros of a coefficient
RECURSIVE StripHigh(_)
StripHigh(c) ==
  IF c # <<>> /\ c[Len(c)] = 0 THEN StripHigh(SubSeq(c, 1, Len(c) - 1)) ELSE c

DigitAt(c, i) == IF i <= Len(c) THEN c[i] ELSE 0

\* a + b on coefficients
AddMag(a, b) ==
  LET n == Max(Len(a), Len(b))
      carry[i \in 0..n] ==
        IF i = 0 THEN 0 ELSE (DigitAt(a, i) + DigitAt(b, i) + carry[i - 1]) \div 10
  IN  StripHigh([i \in 1..(n + 1) |->
        IF i <= n THEN (DigitAt(a, i) + DigitAt(b, i) + carry[i - 1]) % 10
        ELSE carry[n]])

\* a - b on coefficients, for a >= b
SubMag(a, b) ==
  LET n == Len(a)
      borrow[i \in 0..n] ==
        IF i = 0 THEN 0
        ELSE IF DigitAt(a, i) - DigitAt(b, i) - borrow[i - 1] < 0 THEN 1 ELSE 0
  IN  StripHigh([i \in 1..n |-> (DigitAt(a, i) - DigitAt(b, i) - borrow[i - 1] + 10) % 10])

\* -1, 0, 1 as a < b, a = b, a > b on coefficients
RECURSIVE CmpFrom(_, _, _)
CmpFrom(a, b, i) ==
  IF i = 0 THEN 0
  ELSE IF a[i] < b[i] THEN -1
  ELSE IF a[i] > b[i] THEN 1
  ELSE CmpFrom(a, b, i - 1)

CmpMag(a, b) ==
  IF Len(a) < Len(b) THEN -1
  ELSE IF Len(a) > Len(b) THEN 1
  ELSE CmpFrom(a, b, Len(a))

\* the coefficient of x at the (lower or equal) exponent e
Align(x, e) == IF x.c = <<>> THEN <<>> ELSE Zeros(x.e - e) \o x.c

\* the context's rounding (ROUND_HALF_EVEN) of a result to Prec digits
Round(x) ==
  IF Len(x.c) <= Prec THEN x
  ELSE LET d == Len(x.c) - Prec
           kept == SubSeq(x.c, d + 1, Len(x.c))
           restNonZero == \E i \in 1..(d - 1) : x.c[i] # 0
           up == x.c[d] > 5 \/ (x.c[d] = 5 /\ (restNonZero \/ kept[1] % 2 = 1))
           r == IF up THEN AddMag(kept, <<1>>) ELSE kept
       IN  IF Len(r) > Prec THEN Fin(x.sg, Tail(r), x.e + d + 1) ELSE Fin(x.sg, r, x.e + d)

\* x + y on finite Decimals, exact
AddExact(x, y) ==
  LET e == Min(x.e, y.e)
      a == Align(x, e)
      b == Align(y, e)
  IN  IF x.sg = y.sg THEN Fin(x.sg, AddMag(a, b), e)
      ELSE IF CmpMag(a, b) = 0 THEN Fin(0, <<>>, e)
      ELSE IF CmpMag(a, b) > 0 THEN Fin(x.sg, SubMag(a, b), e)
      ELSE Fin(y.sg, SubMag(b, a), e)

\* Decimal.__add__ under the context: a signalling NaN and Infinity - Infinity
\* raise InvalidOperation (the context traps it), a quiet NaN propagates
DecAdd(x, y) ==
  IF x.k = "snan" \/ y.k = "snan" THEN Raised("InvalidOperation")
  ELSE IF x.k = "nan" \/ y.k = "nan" THEN NaN
  ELSE IF x.k = "inf" /\ y.k = "inf"
       THEN IF x.sg = y.sg THEN x ELSE Raised("InvalidOperation")
  ELSE IF x.k = "inf" THEN x
  ELSE IF y.k = "inf" THEN y
  ELSE Round(AddExact(x, y))

IsInfinite(x) == x.k \in {"inf", "finf"}

\* -1, 0, 1 as x < y, x = y, x > y on finite or infinite numbers
Cmp(x, y) ==
  LET sx == IF ~IsInfinite(x) /\ x.c = <<>> THEN 0 ELSE IF x.sg = 1 THEN -1 ELSE 1
      sy == IF ~IsInfinite(y) /\ y.c = <<>> THEN 0 ELSE IF y.sg = 1 THEN -1 ELSE 1
      e == Min(x.e, y.e)
      m == IF IsInfinite(x) /\ IsInfinite(y) THEN 0
           ELSE IF IsInfinite(x) THEN 1
           ELSE IF IsInfinite(y) THEN -1
           ELSE CmpMag(Align(x, e), Align(y, e))
  IN  IF sx # sy THEN (IF sx < sy THEN -1 ELSE 1)
      ELSE IF sx = 0 THEN 0
      ELSE sx * m

\* Decimal.__lt__ and __gt__: "lt", "gt" or neither; an ordering comparison
\* with a NaN raises InvalidOperation
DecOrder(x, y) ==
  IF x.k \in {"nan", "snan"} \/ y.k \in {"nan", "snan"} THEN "InvalidOperation"
  ELSE IF Cmp(x, y) < 0 THEN "lt"
  ELSE IF Cmp(x, y) > 0 THEN "gt"
  ELSE "eq"

\* Decimal.__eq__: numeric equality; a NaN equals nothing
DecEq(x, y) == x.k \notin {"nan", "snan"} /\ y.k \notin {"nan", "snan"} /\ Cmp(x, y) = 0

\* the first index of ch in s from index i on, or 0
RECURSIVE IndexFrom(_, _, _)
IndexFrom(s, ch, i) ==
  IF i > Len(s) THEN 0 ELSE IF s[i] = ch THEN i ELSE IndexFrom(s, ch, i + 1)

IndexOf(s, ch) == IndexFrom(s, ch, 1)

\* Decimal(text): surrounding whitespace is removed; then [sign] digits
\* [. digits] [e [sign] digits], or [sign] Inf, Infinity, NaN, sNaN, in any
\* case. The value is exact (the constructor does not round). Anything else
\* raises InvalidOperation.
DecimalOfStr(text) ==
  LET LowerAll(s) == [j \in 1..Len(s) |-> Lower(s[j])]
      Coefficient(all) == StripHigh(Reverse([j \in 1..Len(all) |-> DigitVal(all[j])]))
      Numeral(sg, ipart, fpart, expOk, eval) ==
        IF AllDigits(ipart) /\ AllDigits(fpart) /\ Len(ipart) + Len(fpart) > 0 /\ expOk
        THEN Fin(sg, Coefficient(ipart \o fpart), eval - Len(fpart))
        ELSE Raised("InvalidOperation")
      Mantissa(sg, mant, dp, expOk, eval) ==
        Numeral(sg,
                IF dp = 0 THEN mant ELSE SubSeq(mant, 1, dp - 1),
                IF dp = 0 THEN <<>> ELSE SubSeq(mant, dp + 1, Len(mant)),
                expOk, eval)
      Exponent(sg, mant, minus, edigits) ==
        Mantissa(sg, mant, IndexOf(mant, "."),
                 edigits # <<>> /\ AllDigits(edigits),
                 IF minus THEN -DigitsToNat(edigits) ELSE DigitsToNat(edigits))
      Split(sg, mant, expo) ==
        Exponent(sg, mant, expo # <<>> /\ expo[1] = "-",
                 IF expo # <<>> /\ expo[1] \in {"+", "-"} THEN Tail(expo) ELSE expo)
      Body(sg, body, ep) ==
        IF body = <<"n", "a", "n">> THEN NaN
        ELSE IF body = <<"s", "n", "a", "n">> THEN SNaN
        ELSE IF body = <<"i", "n", "f">> \/ body = <<"i", "n", "f", "i", "n", "i", "t", "y">>
             THEN Inf(sg)
        ELSE IF ep = 0 THEN Mantissa(sg, body, IndexOf(body, "."), TRUE, 0)
        ELSE Split(sg, SubSeq(body, 1, ep - 1), SubSeq(body, ep + 1, Len(body)))
      Unsigned(sg, body) == Body(sg, body, IndexOf(body, "e"))
      Stripped(s) ==
        Unsigned(IF s # <<>> /\ s[1] = "-" THEN 1 ELSE 0,
                 LowerAll(IF s # <<>> /\ s[1] \in {"+", "-"} THEN Tail(s) ELSE s))
  IN  Stripped(strip(text))

\* str(Decimal): plain notation when the exponent is at most 0 and the
\* number is not too small, scientific notation otherwise
DecimalToStr(d) ==
  LET digits == IF d.c = <<>> THEN <<"0">>
                ELSE [j \in 1..Len(d.c) |-> Digits[d.c[Len(d.c) + 1 - j] + 1]]
      leftdigits == d.e + Len(digits)
      dotplace == IF d.e <= 0 /\ leftdigits > -6 THEN leftdigits ELSE 1
      zeros(m) == [j \in 1..m |-> "0"]
      intpart == IF dotplace <= 0 THEN <<"0">>
                 ELSE IF dotplace >= Len(digits)
                      THEN digits \o zeros(dotplace - Len(digits))
                 ELSE SubSeq(digits, 1, dotplace)
      fracpart == IF dotplace <= 0 THEN <<".">> \o zeros(-dotplace) \o digits
                  ELSE IF dotplace >= Len(digits) THEN <<>>
                  ELSE <<".">> \o SubSeq(digits, dotplace + 1, Len(digits))
      x == leftdigits - dotplace
      exp == IF x = 0 THEN <<>>
             ELSE <<"E">> \o (IF x < 0 THEN IntToStr(x) ELSE <<"+">> \o IntToStr(x))
      sign == IF d.sg = 1 THEN <<"-">> ELSE <<>>
  IN  IF d.k = "nan" THEN sign \o <<"N", "a", "N">>
      ELSE IF d.k = "snan" THEN sign \o <<"s", "N", "a", "N">>
      ELSE IF d.k = "inf" THEN sign \o <<"I", "n", "f", "i", "n", "i", "t", "y">>
      ELSE sign \o intpart \o fracpart \o exp

----------------------------------------------------------------------------
(* float (binary64).  The floats of the model are halves of small          *)
(* magnitude, which binary64 holds and adds without rounding; they are     *)
(* kept as the decimal they equal, under kinds of their own.               *)

FFin(sg, c, e) == [k |-> "ffin", sg |-> sg, c |-> c, e |-> e]
FNaN == [k |-> "fnan", sg |-> 0, c |-> <<>>, e |-> 0]
FInf(sg) == [k |-> "finf", sg |-> sg, c |-> <<>>, e |-> 0]
\* 0.0
FZero == FFin(0, <<>>, 0)
IsFloat(f) == f.k \in {"ffin", "fnan", "finf"}

\* float(text) accepts the numerals Decimal() accepts and nan, inf and
\* infinity, but no signalling NaN; anything else raises ValueError
FloatOfStr(text) ==
  LET OfDecimal(d) ==
        IF d.k = "fin" THEN FFin(d.sg, d.c, d.e)
        ELSE IF d.k = "nan" THEN FNaN
        ELSE IF d.k = "inf" THEN FInf(d.sg)
        ELSE Raised("ValueError")
  IN  OfDecimal(DecimalOfStr(text))

\* x + y on floats: never raises; inf + -inf and anything with nan are nan
FloatAdd(x, y) ==
  IF x.k = "fnan" \/ y.k = "fnan" THEN FNaN
  ELSE IF x.k = "finf" /\ y.k = "finf" THEN (IF x.sg = y.sg THEN x ELSE FNaN)
  ELSE IF x.k = "finf" THEN x
  ELSE IF y.k = "finf" THEN y
  ELSE LET r == AddExact(x, y) IN FFin(r.sg, r.c, r.e)

\* x < y on floats: False when either is nan
FloatLess(x, y) == x.k # "fnan" /\ y.k # "fnan" /\ Cmp(x, y) < 0

\* int(text): surrounding whitespace is removed; then [sign] digits.
\* Returns <<TRUE, n>> or <<FALSE, 0>> when int() raises ValueError.
IntOfStr(text) ==
  LET s == strip(text)
      signed == s # <<>> /\ s[1] \in {"+", "-"}
      ds == IF signed THEN Tail(s) ELSE s
  IN  IF ds # <<>> /\ AllDigits(ds)
      THEN <<TRUE, IF signed /\ s[1] = "-" THEN -DigitsToNat(ds) ELSE DigitsToNat(ds)>>
      ELSE <<FALSE, 0>>


----------------------------------------------------------------------------
(* Outcomes of a call: a returned value or a raised exception *)

\* Python's None where a Decimal may stand
None == [k |-> "None", sg |-> 0, c |-> <<>>, e |-> 0]

NoVal == [sum |-> None, count |-> 0, min |-> None, max |-> None]

Running == [st |-> "running", exc |-> "", arg |-> <<>>, val |-> NoVal]
Return(val) == [st |-> "return", exc |-> "", arg |-> <<>>, val |-> val]
\* raise exc(... {arg}): the exception type and the token its message shows
Raise(exc, arg) == [st |-> "raise", exc |-> exc, arg |-> arg, val |-> NoVal]

----------------------------------------------------------------------------
(* sum_engine.py *)

\* _to_decimal(value): Decimal(str(value)), InvalidNumberError on failure
to_decimal(value) ==
  LET Caught(d) == IF IsDec(d) THEN d ELSE Raised("InvalidNumberError")
  IN  Caught(DecimalOfStr(str(value)))

\* mutant of SafeSumStep: "total = dec" where the code has "total += dec"
SafeSumStep_assign(acc, n) ==
  LET Compared(dec, total, lt, gt) ==
        IF ~IsDec(total) THEN Raise("InvalidOperation", <<>>)
        ELSE IF lt = "InvalidOperation" \/ gt = "InvalidOperation"
             THEN Raise("InvalidOperation", <<>>)
        ELSE Return([total |-> total,
                     count |-> acc.count + 1,
                     min_v |-> IF lt = "lt" THEN dec ELSE acc.min_v,
                     max_v |-> IF gt = "gt" THEN dec ELSE acc.max_v])
      Converted(dec) ==
        IF ~IsDec(dec) THEN Raise("InvalidNumberError", str(n))
        ELSE Compared(dec, dec,
                      IF acc.min_v = None THEN "lt" ELSE DecOrder(dec, acc.min_v),
                      IF acc.max_v = None THEN "gt" ELSE DecOrder(dec, acc.max_v))
  IN  Converted(to_decimal(n))

\* mutant of SafeSumStep: "elif" where the code has the second "if", so that
\* an element that lowers the minimum never raises the maximum
SafeSumStep_elif(acc, n) ==
  LET Compared(dec, total, lt, gt) ==
        IF ~IsDec(total) THEN Raise("InvalidOperation", <<>>)
        ELSE IF lt = "InvalidOperation" \/ gt = "InvalidOperation"
             THEN Raise("InvalidOperation", <<>>)
        ELSE Return([total |-> total,
                     count |-> acc.count + 1,
                     min_v |-> IF lt = "lt" THEN dec ELSE acc.min_v,
                     max_v |-> IF lt # "lt" /\ gt = "gt" THEN dec ELSE acc.max_v])
      Converted(dec) ==
        IF ~IsDec(dec) THEN Raise("InvalidNumberError", str(n))
        ELSE Compared(dec, DecAdd(acc.total, dec),
                      IF acc.min_v = None THEN "lt" ELSE DecOrder(dec, acc.min_v),
                      IF acc.max_v = None THEN "gt" ELSE DecOrder(dec, acc.max_v))
  IN  Converted(to_decimal(n))

\* one iteration of safe_sum's loop on the accumulators
\* acc = [total, count, min_v, max_v]: the new accumulators, or what is raised
SafeSumStep(acc, n) ==
  LET Compared(dec, total, lt, gt) ==
        IF ~IsDec(total) THEN Raise("InvalidOperation", <<>>)
        ELSE IF lt = "InvalidOperation" \/ gt = "InvalidOperation"
             THEN Raise("InvalidOperation", <<>>)
        ELSE Return([total |-> total,
                     count |-> acc.count + 1,
                     min_v |-> IF lt = "lt" THEN dec ELSE acc.min_v,
                     max_v |-> IF gt = "gt" THEN dec ELSE acc.max_v])
      Converted(dec) ==
        IF ~IsDec(dec) THEN Raise("InvalidNumberError", str(n))
        ELSE Compared(dec, DecAdd(acc.total, dec),
                      IF acc.min_v = None THEN "lt" ELSE DecOrder(dec, acc.min_v),
                      IF acc.max_v = None THEN "gt" ELSE DecOrder(dec, acc.max_v))
  IN  Converted(to_decimal(n))

\* the accumulators safe_sum starts with
SafeSumStart == [total |-> Zero, count |-> 0, min_v |-> None, max_v |-> None]

\* safe_sum's return value
SafeSumResult(acc) ==
  [sum |-> acc.total, count |-> acc.count, min |-> acc.min_v, max |-> acc.max_v]

RECURSIVE SafeSumFrom(_, _)
SafeSumFrom(acc, ns) ==
  LET Continue(r) == IF r.st = "raise" THEN r ELSE SafeSumFrom(r.val, Tail(ns))
  IN  IF ns = <<>> THEN Return(SafeSumResult(acc))
      ELSE Continue(SafeSumStep(acc, Head(ns)))

\* safe_sum(numbers)
safe_sum(ns) == SafeSumFrom(SafeSumStart, ns)

\* partial_sum_chunk(chunk): the pair (s, c), or what _to_decimal or the
\* addition raises
RECURSIVE PartialFrom(_, _, _)
PartialFrom(s, c, chunk) ==
  LET Added(s2) ==
        IF ~IsDec(s2) THEN Raise("InvalidOperation", <<>>)
        ELSE PartialFrom(s2, c + 1, Tail(chunk))
      Converted(dec) ==
        IF ~IsDec(dec) THEN Raise("InvalidNumberError", str(Head(chunk)))
        ELSE Added(DecAdd(s, dec))
  IN  IF chunk = <<>> THEN Return(<<s, c>>)
      ELSE Converted(to_decimal(Head(chunk)))

partial_sum_chunk(chunk) == PartialFrom(Zero, 0, chunk)

\* mutant of ReduceFrom: "count += 1" where the code has "count += c"
RECURSIVE ReduceFrom_countpartials(_, _, _)
ReduceFrom_countpartials(tot, cnt, ps) ==
  LET Added(t2) ==
        IF ~IsDec(t2) THEN Raise("InvalidOperation", <<>>)
        ELSE ReduceFrom_countpartials(t2, cnt + 1, Tail(ps))
  IN  IF ps = <<>> THEN Return([sum |-> tot, count |-> cnt])
      ELSE Added(DecAdd(tot, Head(ps)[1]))

\* reduce_partials(partials): {"sum": total, "count": count}
RECURSIVE ReduceFrom(_, _, _)
ReduceFrom(tot, cnt, ps) ==
  LET Added(t2) ==
        IF ~IsDec(t2) THEN Raise("InvalidOperation", <<>>)
        ELSE ReduceFrom(t2, cnt + Head(ps)[2], Tail(ps))
  IN  IF ps = <<>> THEN Return([sum |-> tot, count |-> cnt])
      ELSE Added(DecAdd(tot, Head(ps)[1]))

reduce_partials(ps) == ReduceFrom(Zero, 0, ps)

\* arr.sum(), arr.min(), arr.max() of a float64 array
RECURSIVE ArrSum(_)
ArrSum(arr) ==
  IF arr = <<>> THEN FZero ELSE FloatAdd(ArrSum(SubSeq(arr, 1, Len(arr) - 1)), arr[Len(arr)])

ArrMin(arr) ==
  IF \E j \in 1..Len(arr) : arr[j].k = "fnan" THEN FNaN
  ELSE CHOOSE x \in {arr[j] : j \in 1..Len(arr)} :
         \A j \in 1..Len(arr) : ~FloatLess(arr[j], x)

ArrMax(arr) ==
  IF \E j \in 1..Len(arr) : arr[j].k = "fnan" THEN FNaN
  ELSE CHOOSE x \in {arr[j] : j \in 1..Len(arr)} :
         \A j \in 1..Len(arr) : ~FloatLess(x, arr[j])

\* numpy_sum(numbers) when _HAS_NUMPY is has, numbers being a list or a
\* generator of the elements ns: RuntimeError without numpy;
\* np.asarray(numbers, dtype=np.float64) does not iterate a generator (it
\* raises TypeError and leaves it unconsumed); it converts every element of a
\* list as float() does and raises ValueError at the first it cannot convert
numpy_sum(ns, kind, has) ==
  LET First(bad) == CHOOSE j \in bad : \A m \in bad : j <= m
      Summed(arr, bad) ==
        IF bad # {} THEN Raise("ValueError", str(ns[First(bad)]))
        ELSE Return([sum |-> ArrSum(arr),
                     count |-> Len(arr),
                     min |-> IF Len(arr) > 0 THEN ArrMin(arr) ELSE None,
                     max |-> IF Len(arr) > 0 THEN ArrMax(arr) ELSE None])
      Converted(arr) == Summed(arr, {j \in 1..Len(ns) : ~IsFloat(arr[j])})
  IN  IF ~has THEN Raise("RuntimeError", <<>>)
      ELSE IF kind = "generator" THEN Raise("TypeError", <<>>)
      ELSE Converted([j \in 1..Len(ns) |-> FloatOfStr(str(ns[j]))])

\* parser(line) in stream_sum: Decimal(line) or float(line); any exception
\* becomes InvalidNumberError
StreamParse(prs, line) ==
  LET Caught(v) == IF IsDec(v) \/ IsFloat(v) THEN v ELSE Raised("InvalidNumberError")
  IN  IF prs = "Decimal" THEN Caught(DecimalOfStr(line)) ELSE Caught(FloatOfStr(line))

\* the total stream_sum starts with: Decimal(0) if parser is Decimal else 0.0
StreamZero(prs) == IF prs = "Decimal" THEN Zero ELSE FZero

\* the body of stream_sum's loop on a line that is not blank (already
\* stripped): the new accumulators, or what is raised.  Only the parser call
\* is inside the try block.
StreamStep(acc, prs, line) ==
  LET Compared(val, tot, lt, gt) ==
        IF tot.k = "InvalidOperation" THEN Raise("InvalidOperation", <<>>)
        ELSE IF lt = "InvalidOperation" \/ gt = "InvalidOperation"
             THEN Raise("InvalidOperation", <<>>)
        ELSE Return([total |-> tot,
                     count |-> acc.count + 1,
                     min_v |-> IF lt = "lt" THEN val ELSE acc.min_v,
                     max_v |-> IF gt = "gt" THEN val ELSE acc.max_v])
      Parsed(val) ==
        IF val.k = "InvalidNumberError" THEN Raise("InvalidNumberError", line)
        ELSE IF prs = "Decimal"
        THEN Compared(val, DecAdd(acc.total, val),
                      IF acc.min_v = None THEN "lt" ELSE DecOrder(val, acc.min_v),
                      IF acc.max_v = None THEN "gt" ELSE DecOrder(val, acc.max_v))
        ELSE Compared(val, FloatAdd(acc.total, val),
                      IF acc.min_v = None \/ FloatLess(val, acc.min_v) THEN "lt" ELSE "no",
                      IF acc.max_v = None \/ FloatLess(acc.max_v, val) THEN "gt" ELSE "no")
  IN  Parsed(StreamParse(prs, line))

\* compute_sum(numbers, strategy) when _HAS_NUMPY is has: what it returns or
\* raises
compute_sum(ns, kind, strat, has) ==
  LET Fallback(r) == IF r.st = "return" THEN r ELSE safe_sum(ns)
  IN  IF strat = "numpy" THEN numpy_sum(ns, kind, has)
      ELSE IF strat = "safe" THEN safe_sum(ns)
      ELSE IF has THEN Fallback(numpy_sum(ns, kind, has))
      ELSE safe_sum(ns)

\* the exception classes of sum_engine: SumError and its subclasses
IsSumError(exc) == exc \in {"SumError", "InvalidNumberError"}

\* how the callers of compute_sum (run_sum.main, the module's own main
\* block) report what it raises
ReportedAs(exc) == IF exc = "InvalidNumberError" THEN "Input error" ELSE "Unexpected error"

----------------------------------------------------------------------------
(* adder.py and adder1.py *)

\* an exception's message: its fixed text and the value it quotes
Msg(text, value) == [text |-> text, value |-> value]
NoMsg == Msg("", <<>>)

\* a printed line: what it starts with and the message after it
Line(prefix, msg) == [prefix |-> prefix, msg |-> msg]

\* count >= 1000 in choose_strategy_and_sum
FastPathMin == 1000

\* adder.py parse_count(raw): every failure is a ValueError
parse_count(raw_count) ==
  LET Converted(p) ==
        IF ~p[1]
        THEN Raise("ValueError", Msg("Please enter a valid integer for the count", <<>>))
        ELSE IF p[2] <= 0
        THEN Raise("ValueError", Msg("Count must be a positive integer", <<>>))
        ELSE Return(p[2])
      Stripped(s) ==
        IF s = <<>> THEN Raise("ValueError", Msg("Empty input for count", <<>>))
        ELSE Converted(IntOfStr(s))
  IN  Stripped(strip(raw_count))

\* adder1.py parse_count(text): int(text) is not guarded, so what it raises
\* (ValueError) leaves the function as it is
adder1_parse_count(text) ==
  LET Converted(s, p) ==
        IF ~p[1] THEN Raise("ValueError", Msg("invalid literal for int() with base 10", s))
        ELSE IF p[2] <= 0 THEN Raise("InputError", Msg("Count must be positive", <<>>))
        ELSE Return(p[2])
      Stripped(s) ==
        IF s = <<>> THEN Raise("InputError", Msg("Count required", <<>>))
        ELSE Converted(s, IntOfStr(s))
  IN  Stripped(strip(text))

\* adder.py convert_to_decimal(value) for an int, a float or a str
convert_to_decimal(value) ==
  LET Caught(d) ==
        IF IsDec(d) THEN d ELSE Raised("InvalidNumberError")
  IN  IF value.ty = "str" /\ strip(value.s) = <<>> THEN Raised("InvalidNumberError")
      ELSE Caught(DecimalOfStr(str(value)))

\* the message of the InvalidNumberError convert_to_decimal raises
ConvertMsg(value) ==
  IF strip(value.s) = <<>> THEN Msg("Empty string is not a number", <<>>)
  ELSE Msg("Invalid numeric string", value.s)

\* adder.py safe_sum_decimals(numbers): (total, count), or what is raised
RECURSIVE SumDecimalsFrom(_, _, _)
SumDecimalsFrom(tot, cnt, ns) ==
  LET Added(t2) ==
        IF ~IsDec(t2) THEN Raise("InvalidOperation", NoMsg)
        ELSE SumDecimalsFrom(t2, cnt + 1, Tail(ns))
      Converted(dec) ==
        IF ~IsDec(dec) THEN Raise("InvalidNumberError", ConvertMsg(Head(ns)))
        ELSE Added(DecAdd(tot, dec))
  IN  IF ns = <<>> THEN Return(<<tot, cnt>>)
      ELSE Converted(convert_to_decimal(Head(ns)))

safe_sum_decimals(ns) == SumDecimalsFrom(Zero, 0, ns)

\* adder.py fast_sum_float(numbers): float(x) of every element, then the
\* sum; an element float() refuses raises ValueError
fast_sum_float(ns) ==
  LET First(bad) == CHOOSE j \in bad : \A m \in bad : j <= m
      Summed(arr, bad) ==
        IF bad # {} THEN Raise("ValueError", Msg("could not convert string to float", str(ns[First(bad)])))
        ELSE Return(<<ArrSum(arr), Len(arr)>>)
      Converted(arr) == Summed(arr, {j \in 1..Len(ns) : ~IsFloat(arr[j])})
  IN  Converted([j \in 1..Len(ns) |-> FloatOfStr(str(ns[j]))])

\* adder.py choose_strategy_and_sum(numbers) when _HAS_NUMPY is has
choose_strategy_and_sum(ns, has) ==
  LET Labelled(r, label) ==
        IF r.st = "raise" THEN r
        ELSE Return([sum |-> r.val[1], count |-> r.val[2], strategy |-> label])
      all_numeric_simple == \A j \in 1..Len(ns) : ns[j].ty \in {"int", "float"}
  IN  IF all_numeric_simple /\ has /\ Len(ns) >= FastPathMin
      THEN Labelled(fast_sum_float(ns), IF has THEN "numpy_float" ELSE "python_float")
      ELSE Labelled(safe_sum_decimals(ns), "decimal")

\* repr(x) of a float of the model
FloatRepr(f) ==
  IF f.k = "fnan" THEN <<"n", "a", "n">>
  ELSE IF f.k = "finf" THEN (IF f.sg = 1 THEN <<"-">> ELSE <<>>) \o <<"i", "n", "f">>
  ELSE IF f.e >= 0 THEN DecimalToStr(Fin(f.sg, Zeros(f.e) \o f.c, 0)) \o <<".", "0">>
  ELSE DecimalToStr(Fin(f.sg, f.c, f.e))

----------------------------------------------------------------------------
(* Inputs *)

Txt1 == <<"1">>
Txt2p5 == <<"2", ".", "5">>
TxtBig == <<"1", "E", "2", "8">>
TxtNegBig == <<"-", "1", "E", "2", "8">>
TxtAbc == <<"a", "b", "c">>
TxtBlank == <<" ">>
TxtNaN == <<"N", "a", "N">>
TxtSNaN == <<"s", "N", "a", "N">>
TxtPad7 == <<" ", "7", " ">>

\* the values given to safe_sum: ints, floats and strings, among them
\* numerals that exceed the context precision when added to a small number,
\* an empty and an ill-formed string, and the string NaN
Tokens ==
  { PyInt(1), PyFloat(35), PyStr(Txt2p5), PyStr(TxtBig), PyStr(TxtNegBig),
    PyStr(TxtAbc), PyStr(<<>>), PyStr(TxtNaN) }

SeqsUpTo(S, n) == UNION { [1..m -> S] : m \in 0..n }

----------------------------------------------------------------------------
(* State *)

VARIABLES
  pc,         \* where the running call stands
  ret,        \* what the call returned or raised
  numbers,    \* the call's input sequence
  i,          \* elements (or lines) consumed by the running loop
  total,      \* safe_sum / stream_sum local
  count,      \* safe_sum / stream_sum local
  min_v,      \* safe_sum / stream_sum local
  max_v,      \* safe_sum / stream_sum local
  partials,   \* the (partial_sum, count) pairs handed to reduce_partials
  strategy,   \* compute_sum's strategy argument
  iterable,   \* what numbers is: "list" or "generator"
  HAS_NUMPY,  \* _HAS_NUMPY: whether "import numpy" succeeded
  called,     \* the summing functions compute_sum has called, in order
  header,     \* the request's X-Request-ID header ("" when absent)
  response,   \* the HTTP response of the /sum endpoint
  file_obj,   \* the lines of the source stream_sum reads
  parser,     \* stream_sum's parser argument
  variant,    \* the console program: "adder" or "adder1"
  raw,        \* the text typed at the count prompt
  n,          \* the count the console program accepted
  typed,      \* the lines the console program has read, in order
  inputs,     \* the tokens the console program collected
  out         \* what the console program printed, in order

sumVars == <<numbers, i, total, count, min_v, max_v>>
engVars == <<strategy, iterable, HAS_NUMPY, called>>
httpVars == <<header, response>>
streamVars == <<file_obj, parser>>
cliVars == <<variant, raw, n, typed, inputs, out>>

vars == <<pc, ret, sumVars, partials, engVars, httpVars, streamVars, cliVars>>

\* the state of the parts a specification does not run
NoLoop == i = 0 /\ total = Zero /\ count = 0 /\ min_v = None /\ max_v = None
NoPartials == partials = <<>>
NoEngine == strategy = "" /\ iterable = "list" /\ HAS_NUMPY = FALSE /\ called = <<>>
NoHttp == header = "" /\ response = [status |-> 0]
NoStream == file_obj = <<>> /\ parser = ""
NoCli == variant = "" /\ raw = <<>> /\ n = 0 /\ typed = <<>> /\ inputs = <<>> /\ out = <<>>

----------------------------------------------------------------------------
(* safe_sum, one loop iteration at a time *)

InitSafeSum ==
  /\ numbers \in SeqsUpTo(Tokens, MaxLen)
  /\ pc = "safe_sum"
  /\ ret = Running
  /\ NoLoop /\ NoPartials /\ NoEngine /\ NoHttp /\ NoStream /\ NoCli

\* for n in numbers: ... (one iteration, or the exception that ends the call)
SafeSumIter ==
  /\ pc = "safe_sum"
  /\ i < Len(numbers)
  /\ LET Iterated(r) ==
           IF r.st = "raise"
           THEN /\ ret' = r
                /\ pc' = "done"
                /\ UNCHANGED <<total, count, min_v, max_v>>
           ELSE /\ total' = r.val.total
                /\ count' = r.val.count
                /\ min_v' = r.val.min_v
                /\ max_v' = r.val.max_v
                /\ UNCHANGED <<ret, pc>>
     IN  Iterated(SafeSumStep([total |-> total, count |-> count,
                               min_v |-> min_v, max_v |-> max_v], numbers[i + 1]))
  /\ i' = i + 1
  /\ UNCHANGED <<numbers, partials, engVars, httpVars, streamVars, cliVars>>

\* return {"sum": total, "count": count, "min": min_v, "max": max_v}
SafeSumReturn ==
  /\ pc = "safe_sum"
  /\ i = Len(numbers)
  /\ ret' = Return(SafeSumResult([total |-> total, count |-> count,
                                  min_v |-> min_v, max_v |-> max_v]))
  /\ pc' = "done"
  /\ UNCHANGED <<sumVars, partials, engVars, httpVars, streamVars, cliVars>>

Next == SafeSumIter \/ SafeSumReturn

Spec == InitSafeSum /\ [][Next]_vars

----------------------------------------------------------------------------
(* partial_sum_chunk over contiguous chunks, then reduce_partials *)

\* the values given to the map-reduce helpers
ChunkTokens ==
  { PyInt(1), PyStr(TxtBig), PyStr(TxtNegBig), PyStr(TxtAbc) }

InsertAt(s, p, x) == SubSeq(s, 1, p - 1) \o <<x>> \o SubSeq(s, p, Len(s))

InitMapReduce ==
  /\ numbers \in SeqsUpTo(ChunkTokens, MaxLen)
  /\ pc = "map"
  /\ ret = Running
  /\ NoLoop /\ NoPartials /\ NoEngine /\ NoHttp /\ NoStream /\ NoCli

\* the next len elements (none, some or all that remain) are one chunk;
\* partial_sum_chunk(chunk) is put anywhere among the partials computed so far
MapChunk ==
  /\ pc = "map"
  /\ Len(partials) < MaxChunks
  /\ \E len \in 0..(Len(numbers) - i) :
       LET Mapped(r) ==
             IF r.st = "raise"
             THEN /\ ret' = r
                  /\ pc' = "done"
                  /\ UNCHANGED <<partials, i>>
             ELSE /\ \E p \in 1..(Len(partials) + 1) : partials' = InsertAt(partials, p, r.val)
                  /\ i' = i + len
                  /\ UNCHANGED <<ret, pc>>
       IN  Mapped(partial_sum_chunk(SubSeq(numbers, i + 1, i + len)))
  /\ UNCHANGED <<numbers, total, count, min_v, max_v, engVars, httpVars, streamVars, cliVars>>

\* reduce_partials(partials), once every element is in some chunk
Reduce ==
  /\ pc = "map"
  /\ i = Len(numbers)
  /\ ret' = reduce_partials(partials)
  /\ pc' = "reduced"
  /\ UNCHANGED <<sumVars, partials, engVars, httpVars, streamVars, cliVars>>

NextMapReduce == MapChunk \/ Reduce

SpecMapReduce == InitMapReduce /\ [][NextMapReduce]_vars

----------------------------------------------------------------------------
(* compute_sum, one call of a summing function at a time *)

\* strategy arguments: the three the docstring names and one it does not
Strategies == {"auto", "safe", "numpy", "precise"}

\* the values given to compute_sum
EngineTokens ==
  { PyInt(1), PyFloat(35), PyStr(Txt2p5), PyStr(TxtPad7), PyStr(TxtAbc), PyStr(<<>>),
    PyStr(TxtNaN) }

InitCompute ==
  /\ numbers \in SeqsUpTo(EngineTokens, MaxLen)
  /\ strategy \in Strategies
  /\ iterable \in {"list", "generator"}
  /\ HAS_NUMPY \in BOOLEAN
  /\ called = <<>>
  /\ pc = "compute_sum"
  /\ ret = Running
  /\ NoLoop /\ NoPartials /\ NoHttp /\ NoStream /\ NoCli

\* mutant of CallNumpy: what numpy_sum raises is caught and safe_sum is
\* called, as on the auto path
CallNumpy_fallback ==
  /\ pc = "compute_sum"
  /\ strategy = "numpy"
  /\ LET Tried(r) ==
           IF r.st = "return"
           THEN called' = <<"numpy_sum">> /\ ret' = r
           ELSE called' = <<"numpy_sum", "safe_sum">> /\ ret' = safe_sum(numbers)
     IN  Tried(numpy_sum(numbers, iterable, HAS_NUMPY))
  /\ pc' = "done"
  /\ UNCHANGED <<sumVars, partials, strategy, iterable, HAS_NUMPY, httpVars, streamVars, cliVars>>

\* if strategy == "numpy": return numpy_sum(numbers)
CallNumpy ==
  /\ pc = "compute_sum"
  /\ strategy = "numpy"
  /\ called' = <<"numpy_sum">>
  /\ ret' = numpy_sum(numbers, iterable, HAS_NUMPY)
  /\ pc' = "done"
  /\ UNCHANGED <<sumVars, partials, strategy, iterable, HAS_NUMPY, httpVars, streamVars, cliVars>>

\* mutant of CallSafe: every strategy that is neither "numpy" nor "auto" is
\* answered by safe_sum
CallSafe_unrecognised ==
  /\ pc = "compute_sum"
  /\ strategy \notin {"numpy", "auto"}
  /\ called' = <<"safe_sum">>
  /\ ret' = safe_sum(numbers)
  /\ pc' = "done"
  /\ UNCHANGED <<sumVars, partials, strategy, iterable, HAS_NUMPY, httpVars, streamVars, cliVars>>

\* if strategy == "safe": return safe_sum(numbers)
CallSafe ==
  /\ pc = "compute_sum"
  /\ strategy = "safe"
  /\ called' = <<"safe_sum">>
  /\ ret' = safe_sum(numbers)
  /\ pc' = "done"
  /\ UNCHANGED <<sumVars, partials, strategy, iterable, HAS_NUMPY, httpVars, streamVars, cliVars>>

\* auto, numpy present: try: return numpy_sum(numbers); an exception is
\* caught and leads to the fallback
AutoNumpy ==
  /\ pc = "compute_sum"
  /\ strategy \notin {"numpy", "safe"}
  /\ HAS_NUMPY
  /\ called' = <<"numpy_sum">>
  /\ LET Tried(r) ==
           IF r.st = "return"
           THEN ret' = r /\ pc' = "done"
           ELSE ret' = ret /\ pc' = "fallback"
     IN  Tried(numpy_sum(numbers, iterable, HAS_NUMPY))
  /\ UNCHANGED <<sumVars, partials, strategy, iterable, HAS_NUMPY, httpVars, streamVars, cliVars>>

\* mutant of AutoFallback: the exception of the numpy path is raised again
AutoFallback_reraise ==
  /\ pc = "fallback"
  /\ called' = called
  /\ ret' = numpy_sum(numbers, iterable, HAS_NUMPY)
  /\ pc' = "done"
  /\ UNCHANGED <<sumVars, partials, strategy, iterable, HAS_NUMPY, httpVars, streamVars, cliVars>>

\* except Exception: return safe_sum(numbers)
AutoFallback ==
  /\ pc = "fallback"
  /\ called' = Append(called, "safe_sum")
  /\ ret' = safe_sum(numbers)
  /\ pc' = "done"
  /\ UNCHANGED <<sumVars, partials, strategy, iterable, HAS_NUMPY, httpVars, streamVars, cliVars>>

\* auto, numpy absent: return safe_sum(numbers)
AutoSafe ==
  /\ pc = "compute_sum"
  /\ strategy \notin {"numpy", "safe"}
  /\ ~HAS_NUMPY
  /\ called' = <<"safe_sum">>
  /\ ret' = safe_sum(numbers)
  /\ pc' = "done"
  /\ UNCHANGED <<sumVars, partials, strategy, iterable, HAS_NUMPY, httpVars, streamVars, cliVars>>

NextCompute == CallNumpy \/ CallSafe \/ AutoNumpy \/ AutoFallback \/ AutoSafe

SpecCompute == InitCompute /\ [][NextCompute]_vars

----------------------------------------------------------------------------
(* app.py: POST /sum *)

\* values of the X-Request-ID header; "" when the header is absent or empty
Headers == {"", "client-7"}

\* "req-" + uuid4().hex
Uuids == {"req-0a", "req-0b"}

InitHttp ==
  /\ numbers \in SeqsUpTo(EngineTokens, MaxLen)
  /\ header \in Headers
  /\ HAS_NUMPY \in BOOLEAN
  /\ response = [status |-> 0]
  /\ pc = "request"
  /\ ret = Running
  /\ strategy = "" /\ iterable = "list" /\ called = <<>>
  /\ i = 0 /\ total = Zero /\ count = 0 /\ min_v = None /\ max_v = None
  /\ NoPartials /\ NoStream /\ NoCli

\* SumRequest: numbers has min_items=1; the framework answers a body that
\* does not validate with 422 and does not call the endpoint
RejectPayload ==
  /\ pc = "request"
  /\ Len(numbers) < 1
  /\ response' = [status |-> 422]
  /\ pc' = "done"
  /\ UNCHANGED <<ret, sumVars, partials, engVars, header, streamVars, cliVars>>

\* sum_endpoint(req, payload), up to the value it returns or the
\* HTTPException it raises
SumEndpoint ==
  /\ pc = "request"
  /\ Len(numbers) >= 1
  /\ \E u \in Uuids :
       LET request_id == IF header # "" THEN header ELSE u
           Handled(result) ==
             /\ ret' = result
             /\ response' =
                  IF result.st = "raise" /\ result.exc = "InvalidNumberError"
                  THEN [status |-> 400,
                        detail |-> [msg |-> "Invalid numeric value", arg |-> result.arg]]
                  ELSE IF result.st = "raise"
                  THEN [status |-> 500,
                        detail |-> [msg |-> "Internal error. Request id", arg |-> request_id]]
                  ELSE [status |-> 200,
                        request_id |-> request_id,
                        sum |-> IF IsDec(result.val.sum) THEN DecimalToStr(result.val.sum)
                                ELSE result.val.sum,
                        count |-> result.val.count]
       IN  Handled(compute_sum(numbers, "list", "auto", HAS_NUMPY))
  /\ pc' = "done"
  /\ UNCHANGED <<sumVars, partials, engVars, header, streamVars, cliVars>>

NextHttp == RejectPayload \/ SumEndpoint

SpecHttp == InitHttp /\ [][NextHttp]_vars

----------------------------------------------------------------------------
(* parse_count of either console program, and what its caller does with *)
(* the outcome                                                           *)

\* the characters typed at the count prompt
CountChars == {" ", "-", "0", "1", "2", "a"}

InitCount ==
  /\ variant \in {"adder", "adder1"}
  /\ raw \in SeqsUpTo(CountChars, MaxText)
  /\ pc = "count_prompt"
  /\ ret = Running
  /\ n = 0 /\ typed = <<>> /\ inputs = <<>> /\ out = <<>>
  /\ numbers = <<>>
  /\ NoLoop /\ NoPartials /\ NoEngine /\ NoHttp /\ NoStream

\* adder.py interactive_input, one pass of its first loop: the count is
\* parsed; any exception is printed as "Invalid input" and the prompt repeats
AdderCount ==
  /\ pc = "count_prompt"
  /\ variant = "adder"
  /\ LET Parsed(r) ==
           /\ ret' = r
           /\ IF r.st = "raise"
              THEN /\ out' = Append(out, Line("Invalid input", r.arg))
                   /\ pc' = "prompt_again"
                   /\ n' = n
              ELSE /\ n' = r.val
                   /\ pc' = "number_prompt"
                   /\ out' = out
     IN  Parsed(parse_count(strip(raw)))
  /\ typed' = Append(typed, raw)
  /\ UNCHANGED <<sumVars, partials, engVars, httpVars, streamVars, variant, raw, inputs>>

\* adder1.py main, its first two statements: an InputError is printed as
\* "Input error", any other exception as "Unexpected error", and main ends
Adder1Count ==
  /\ pc = "count_prompt"
  /\ variant = "adder1"
  /\ LET Parsed(r) ==
           /\ ret' = r
           /\ IF r.st = "raise"
              THEN /\ out' = Append(out, Line(IF r.exc = "InputError" THEN "Input error"
                                              ELSE "Unexpected error", r.arg))
                   /\ pc' = "done"
                   /\ n' = n
              ELSE /\ n' = r.val
                   /\ pc' = "number_prompt"
                   /\ out' = out
     IN  Parsed(adder1_parse_count(raw))
  /\ typed' = Append(typed, raw)
  /\ UNCHANGED <<sumVars, partials, engVars, httpVars, streamVars, variant, raw, inputs>>

NextCount == AdderCount \/ Adder1Count

SpecCount == InitCount /\ [][NextCount]_vars

----------------------------------------------------------------------------
(* adder.py run_cli: the prompts of interactive_input, then the sum *)

\* the lines typed at the count prompt
CountLines == { <<>>, <<"a">>, <<"0">>, <<"-", "1">>, <<"1">>, <<" ", "2">> }

\* the lines typed at a number prompt
NumberLines == { <<>>, TxtBlank, Txt1, Txt2p5, TxtPad7, TxtAbc, TxtNaN, TxtSNaN }

InitCli ==
  /\ variant = "adder"
  /\ HAS_NUMPY \in BOOLEAN
  /\ pc = "count_prompt"
  /\ ret = Running
  /\ raw = <<>> /\ n = 0 /\ typed = <<>> /\ inputs = <<>> /\ out = <<>>
  /\ numbers = <<>>
  /\ strategy = "" /\ iterable = "list" /\ called = <<>>
  /\ NoLoop /\ NoPartials /\ NoHttp /\ NoStream

\* one pass of interactive_input's first loop
CountPrompt ==
  /\ pc = "count_prompt"
  /\ Len(typed) < MaxEntries
  /\ \E line \in CountLines :
       LET Parsed(r) ==
             IF r.st = "raise"
             THEN /\ out' = Append(out, Line("Invalid input", r.arg))
                  /\ UNCHANGED <<n, pc>>
             ELSE /\ n' = r.val
                  /\ pc' = "number_prompt"
                  /\ out' = out
       IN  /\ typed' = Append(typed, line)
           /\ Parsed(parse_count(strip(line)))
  /\ UNCHANGED <<ret, sumVars, partials, engVars, httpVars, streamVars, variant, raw, inputs>>

\* one pass of the loop that reads number i: only an empty line raises
\* InvalidNumberError and repeats the prompt; any other line is appended
NumberPrompt ==
  /\ pc = "number_prompt"
  /\ Len(typed) < MaxEntries
  /\ \E line \in NumberLines :
       /\ typed' = Append(typed, line)
       /\ IF strip(line) = <<>>
          THEN /\ out' = Append(out, Line("Invalid input", Msg("Empty input is not allowed", <<>>)))
               /\ UNCHANGED <<inputs, pc>>
          ELSE /\ inputs' = Append(inputs, strip(line))
               /\ pc' = IF Len(inputs) + 1 = n THEN "sum" ELSE "number_prompt"
               /\ out' = out
  /\ UNCHANGED <<ret, sumVars, partials, engVars, httpVars, streamVars, variant, raw, n>>

\* run_cli after interactive_input returned: choose_strategy_and_sum, then
\* the result is printed, or the exception is reported
Sum ==
  /\ pc = "sum"
  /\ LET Summed(r) ==
           /\ ret' = r
           /\ out' = out \o
                (IF r.st = "return"
                 THEN << Line("Count", Msg("", IntToStr(r.val.count))),
                         Line("Strategy", Msg(r.val.strategy, <<>>)),
                         Line("Sum", Msg("", IF IsDec(r.val.sum) THEN DecimalToStr(r.val.sum)
                                             ELSE FloatRepr(r.val.sum))) >>
                 ELSE IF r.exc = "InvalidNumberError" THEN <<Line("Input error", r.arg)>>
                 ELSE <<Line("Unexpected error", r.arg)>>)
     IN  Summed(choose_strategy_and_sum([j \in 1..Len(inputs) |-> PyStr(inputs[j])], HAS_NUMPY))
  /\ pc' = "done"
  /\ UNCHANGED <<sumVars, partials, engVars, httpVars, streamVars, variant, raw, n, typed, inputs>>

\* Ctrl-C at a prompt: except KeyboardInterrupt
Interrupt ==
  /\ pc \in {"count_prompt", "number_prompt"}
  /\ ret' = Raise("KeyboardInterrupt", NoMsg)
  /\ out' = Append(out, Line("Operation cancelled by user.", NoMsg))
  /\ pc' = "done"
  /\ UNCHANGED <<sumVars, partials, engVars, httpVars, streamVars, variant, raw, n, typed, inputs>>

NextCli == CountPrompt \/ NumberPrompt \/ Sum \/ Interrupt

SpecCli == InitCli /\ [][NextCli]_vars

----------------------------------------------------------------------------
(* adder.py choose_strategy_and_sum, one loop iteration at a time, so that *)
(* lists of FastPathMin elements can be summed                             *)

\* the values given to choose_strategy_and_sum
ChooseTokens == { PyInt(1), PyFloat(35), PyStr(Txt2p5), PyStr(TxtAbc) }

\* lists just below and at the length the fast path asks for: len - 1 times
\* one value, then a last value
LargeInputs ==
  { [j \in 1..len |-> IF j < len THEN x ELSE y] :
      x \in ChooseTokens, y \in ChooseTokens, len \in {FastPathMin - 1, FastPathMin} }

InitChoose ==
  /\ numbers \in SeqsUpTo(ChooseTokens, MaxLen) \cup LargeInputs
  /\ HAS_NUMPY \in BOOLEAN
  /\ pc = "choose_strategy_and_sum"
  /\ ret = Running
  /\ strategy = "" /\ iterable = "list" /\ called = <<>>
  /\ NoLoop /\ NoPartials /\ NoHttp /\ NoStream /\ NoCli

\* mutant of Choose: "count > 1000" where the code has "count >= 1000"
Choose_above ==
  /\ pc = "choose_strategy_and_sum"
  /\ IF /\ \A j \in 1..Len(numbers) : numbers[j].ty \in {"int", "float"}
        /\ HAS_NUMPY
        /\ Len(numbers) > FastPathMin
     THEN /\ called' = <<"fast_sum_float">>
          /\ pc' = "fast_sum_float"
          /\ total' = FZero
     ELSE /\ called' = <<"safe_sum_decimals">>
          /\ pc' = "safe_sum_decimals"
          /\ total' = Zero
  /\ UNCHANGED <<ret, numbers, i, count, min_v, max_v, partials, strategy, iterable,
                 HAS_NUMPY, httpVars, streamVars, cliVars>>

\* count = len(numbers); all_numeric_simple = ...; the if that picks the
\* summing function
Choose ==
  /\ pc = "choose_strategy_and_sum"
  /\ IF /\ \A j \in 1..Len(numbers) : numbers[j].ty \in {"int", "float"}
        /\ HAS_NUMPY
        /\ Len(numbers) >= FastPathMin
     THEN /\ called' = <<"fast_sum_float">>
          /\ pc' = "fast_sum_float"
          /\ total' = FZero
     ELSE /\ called' = <<"safe_sum_decimals">>
          /\ pc' = "safe_sum_decimals"
          /\ total' = Zero
  /\ UNCHANGED <<ret, numbers, i, count, min_v, max_v, partials, strategy, iterable,
                 HAS_NUMPY, httpVars, streamVars, cliVars>>

\* fast_sum_float, one element: float(x), added to the array's sum (the
\* floats of the model add without rounding, in any order)
FastIter ==
  /\ pc = "fast_sum_float"
  /\ i < Len(numbers)
  /\ LET Converted(v) ==
           IF ~IsFloat(v)
           THEN /\ ret' = Raise("ValueError", Msg("could not convert string to float",
                                                  str(numbers[i + 1])))
                /\ pc' = "done"
                /\ total' = total
           ELSE /\ total' = FloatAdd(total, v)
                /\ UNCHANGED <<ret, pc>>
     IN  Converted(FloatOfStr(str(numbers[i + 1])))
  /\ i' = i + 1
  /\ UNCHANGED <<numbers, count, min_v, max_v, partials, engVars, httpVars, streamVars, cliVars>>

\* return float(arr.sum()), int(arr.size), and the dict made of them
FastReturn ==
  /\ pc = "fast_sum_float"
  /\ i = Len(numbers)
  /\ ret' = Return([sum |-> total, count |-> Len(numbers),
                    strategy |-> IF HAS_NUMPY THEN "numpy_float" ELSE "python_float"])
  /\ pc' = "done"
  /\ UNCHANGED <<sumVars, partials, engVars, httpVars, streamVars, cliVars>>

\* safe_sum_decimals, one iteration of its loop
DecimalIter ==
  /\ pc = "safe_sum_decimals"
  /\ i < Len(numbers)
  /\ LET Added(t2) ==
           IF ~IsDec(t2)
           THEN /\ ret' = Raise("InvalidOperation", NoMsg)
                /\ pc' = "done"
                /\ UNCHANGED <<total, count>>
           ELSE /\ total' = t2
                /\ count' = count + 1
                /\ UNCHANGED <<ret, pc>>
         Converted(dec) ==
           IF ~IsDec(dec)
           THEN /\ ret' = Raise("InvalidNumberError", ConvertMsg(numbers[i + 1]))
                /\ pc' = "done"
                /\ UNCHANGED <<total, count>>
           ELSE Added(DecAdd(total, dec))
     IN  Converted(convert_to_decimal(numbers[i + 1]))
  /\ i' = i + 1
  /\ UNCHANGED <<numbers, min_v, max_v, partials, engVars, httpVars, streamVars, cliVars>>

\* return total, count, and the dict made of them
DecimalReturn ==
  /\ pc = "safe_sum_decimals"
  /\ i = Len(numbers)
  /\ ret' = Return([sum |-> total, count |-> count, strategy |-> "decimal"])
  /\ pc' = "done"
  /\ UNCHANGED <<sumVars, partials, engVars, httpVars, streamVars, cliVars>>

NextChoose == Choose \/ FastIter \/ FastReturn \/ DecimalIter \/ DecimalReturn

SpecChoose == InitChoose /\ [][NextChoose]_vars

----------------------------------------------------------------------------
(* stream_sum, one line at a time *)

\* the lines of a source read with parser=Decimal
DecimalLines == {Txt1, Txt2p5, TxtPad7, TxtBig, <<>>, TxtBlank, TxtAbc, TxtNaN}

\* the lines of a source read with parser=float
FloatLines == {Txt1, Txt2p5, TxtPad7, <<>>, TxtBlank, TxtAbc, TxtNaN}

InitStream ==
  /\ parser \in {"Decimal", "float"}
  /\ file_obj \in SeqsUpTo(IF parser = "Decimal" THEN DecimalLines ELSE FloatLines, MaxLen)
  /\ pc = "stream_sum"
  /\ ret = Running
  /\ i = 0
  /\ total = StreamZero(parser)
  /\ count = 0
  /\ min_v = None
  /\ max_v = None
  /\ numbers = <<>>
  /\ NoPartials /\ NoEngine /\ NoHttp /\ NoCli

\* line = line.strip(); if not line: continue
StreamSkipBlank ==
  /\ pc = "stream_sum"
  /\ i < Len(file_obj)
  /\ strip(file_obj[i + 1]) = <<>>
  /\ i' = i + 1
  /\ UNCHANGED <<pc, ret, numbers, total, count, min_v, max_v, partials, engVars,
                 httpVars, streamVars, cliVars>>

\* a line that is not blank: parse it and accumulate, or raise
StreamLine ==
  /\ pc = "stream_sum"
  /\ i < Len(file_obj)
  /\ strip(file_obj[i + 1]) # <<>>
  /\ LET Stepped(r) ==
           IF r.st = "raise"
           THEN /\ ret' = r
                /\ pc' = "done"
                /\ UNCHANGED <<total, count, min_v, max_v>>
           ELSE /\ total' = r.val.total
                /\ count' = r.val.count
                /\ min_v' = r.val.min_v
                /\ max_v' = r.val.max_v
                /\ UNCHANGED <<ret, pc>>
     IN  Stepped(StreamStep([total |-> total, count |-> count,
                             min_v |-> min_v, max_v |-> max_v], parser, strip(file_obj[i + 1])))
  /\ i' = i + 1
  /\ UNCHANGED <<numbers, partials, engVars, httpVars, streamVars, cliVars>>

\* the source is exhausted: return {"sum": ..., "count": ..., "min": ..., "max": ...}
StreamReturn ==
  /\ pc = "stream_sum"
  /\ i = Len(file_obj)
  /\ ret' = Return([sum |-> total, count |-> count, min |-> min_v, max |-> max_v])
  /\ pc' = "done"
  /\ UNCHANGED <<sumVars, partials, engVars, httpVars, streamVars, cliVars>>

NextStream == StreamSkipBlank \/ StreamLine \/ StreamReturn

SpecStream == InitStream /\ [][NextStream]_vars

----------------------------------------------------------------------------
(* Notions the claims are stated with *)

\* x is a well-formed number: its text denotes a finite decimal
IsNumber(x) == DecimalOfStr(str(x)).k = "fin"

\* Decimal() refuses x
Rejected(x) == ~IsDec(DecimalOfStr(str(x)))

AllNumbers(ns) == \A j \in 1..Len(ns) : IsNumber(ns[j])

\* the least index of ns whose element satisfies P, or 0
FirstNonNumber(ns) ==
  IF AllNumbers(ns) THEN 0
  ELSE CHOOSE j \in 1..Len(ns) : ~IsNumber(ns[j]) /\ AllNumbers(SubSeq(ns, 1, j - 1))

FirstRejected(ns) ==
  IF \A j \in 1..Len(ns) : ~Rejected(ns[j]) THEN 0
  ELSE CHOOSE j \in 1..Len(ns) :
         Rejected(ns[j]) /\ \A m \in 1..(j - 1) : ~Rejected(ns[m])

\* the arithmetic total of the values of ns, with no rounding at all
RECURSIVE ExactTotal(_)
ExactTotal(ns) ==
  IF ns = <<>> THEN Zero
  ELSE AddExact(ExactTotal(SubSeq(ns, 1, Len(ns) - 1)), DecimalOfStr(str(ns[Len(ns)])))

\* drop low-order zeros of a coefficient
RECURSIVE StripLow(_)
StripLow(c) == IF c # <<>> /\ c[1] = 0 THEN StripLow(Tail(c)) ELSE c

\* the number of significant digits of a finite Decimal
SigDigits(x) == Len(StripLow(x.c))

\* every running total of ns can be held in Prec digits
PrefixesFit(ns) == \A m \in 0..Len(ns) : SigDigits(ExactTotal(SubSeq(ns, 1, m))) <= Prec

----------------------------------------------------------------------------
(* Claims on safe_sum (specification Spec) *)

\* C1 (as stated, in its weakest reading): when some element is one that
\* Decimal() refuses, the finished call has raised InvalidNumberError naming
\* the first element that is not a well-formed number (or the first one
\* Decimal() refuses), and has returned nothing.
C1_InvalidElementRaisesInvalidNumber ==
  (pc = "done" /\ FirstRejected(numbers) # 0) =>
    /\ ret.st = "raise"
    /\ ret.exc = "InvalidNumberError"
    /\ ret.arg \in { str(numbers[FirstNonNumber(numbers)]),
                     str(numbers[FirstRejected(numbers)]) }

\* C2 (as stated): on well-formed numbers, after k elements the running count
\* is k and the running total is the arithmetic total of those k values, and
\* the call returns count = len(numbers) and sum = the arithmetic total
\* (count 0 and sum 0 for the empty sequence).
C2_SumIsArithmeticTotal ==
  /\ (pc = "safe_sum" /\ AllNumbers(SubSeq(numbers, 1, i))) =>
       /\ count = i
       /\ DecEq(total, ExactTotal(SubSeq(numbers, 1, i)))
  /\ (pc = "done" /\ AllNumbers(numbers)) =>
       /\ ret.st = "return"
       /\ ret.val.count = Len(numbers)
       /\ DecEq(ret.val.sum, ExactTotal(numbers))

\* C2 (amended): the count part holds as stated; the sum is the arithmetic
\* total whenever every running total fits the context precision of Prec
\* significant digits (beyond it each addition rounds).
C2_SumIsTotalWithinPrecision ==
  /\ (pc = "safe_sum" /\ AllNumbers(SubSeq(numbers, 1, i))) =>
       /\ count = i
       /\ PrefixesFit(SubSeq(numbers, 1, i)) =>
            DecEq(total, ExactTotal(SubSeq(numbers, 1, i)))
  /\ (pc = "done" /\ AllNumbers(numbers)) =>
       /\ ret.st = "return"
       /\ ret.val.count = Len(numbers)
       /\ PrefixesFit(numbers) => DecEq(ret.val.sum, ExactTotal(numbers))
       /\ numbers = <<>> => ret.val.sum = Zero

\* C2 witness: three well-formed numbers, one of them of 29 digits, whose
\* running totals all fit, have been summed
C2_Witness ==
  /\ pc = "done"
  /\ Len(numbers) = MaxLen
  /\ AllNumbers(numbers)
  /\ PrefixesFit(numbers)
  /\ \E j \in 1..Len(numbers) : numbers[j] = PyStr(TxtBig)
  /\ \E j \in 1..Len(numbers) : numbers[j] = PyFloat(35)
  /\ ret.st = "return"
  /\ ret.val.count = MaxLen

\* C3: on well-formed numbers the returned min and max are parsed values of
\* the input, min <= every parsed value <= max; both are None for the empty
\* sequence.
C3_MinMaxAreExtrema ==
  (pc = "done" /\ AllNumbers(numbers)) =>
    /\ ret.st = "return"
    /\ numbers = <<>> => (ret.val.min = None /\ ret.val.max = None)
    /\ numbers # <<>> =>
         /\ \E j \in 1..Len(numbers) : ret.val.min = to_decimal(numbers[j])
         /\ \E j \in 1..Len(numbers) : ret.val.max = to_decimal(numbers[j])
         /\ \A j \in 1..Len(numbers) :
              /\ Cmp(ret.val.min, to_decimal(numbers[j])) <= 0
              /\ Cmp(to_decimal(numbers[j]), ret.val.max) <= 0

\* C3 witness: a call whose minimum is the last element and whose maximum is
\* the first has returned
C3_Witness ==
  /\ pc = "done"
  /\ Len(numbers) = MaxLen
  /\ AllNumbers(numbers)
  /\ ret.st = "return"
  /\ ret.val.max = to_decimal(numbers[1])
  /\ ret.val.min = to_decimal(numbers[Len(numbers)])
  /\ Cmp(ret.val.min, ret.val.max) < 0

----------------------------------------------------------------------------
(* Claims on partial_sum_chunk and reduce_partials (SpecMapReduce) *)

\* the arithmetic total of the Decimals of ds at the indices in S
RECURSIVE ExactTotalOf(_, _)
ExactTotalOf(ds, S) ==
  IF S = {} THEN Zero
  ELSE LET j == CHOOSE m \in S : TRUE
       IN  AddExact(ExactTotalOf(ds, S \ {j}), ds[j])

\* the total of any selection of the elements can be held in Prec digits, so
\* that no addition of partial totals, in any grouping or order, rounds
SelectionsFit(ns) ==
  LET ds == [j \in 1..Len(ns) |-> DecimalOfStr(str(ns[j]))]
  IN  \A S \in SUBSET (1..Len(ns)) : SigDigits(ExactTotalOf(ds, S)) <= Prec

\* C4 (as stated): for well-formed numbers cut into contiguous chunks and
\* combined in any order, reduce_partials gives the sum and the count that
\* safe_sum gives on the whole sequence.
C4_PartitionInvariance ==
  (pc = "reduced" /\ AllNumbers(numbers)) =>
    LET whole == safe_sum(numbers)
    IN  /\ ret.st = "return"
        /\ whole.st = "return"
        /\ ret.val.count = whole.val.count
        /\ DecEq(ret.val.sum, whole.val.sum)

\* C4 (amended): the count is always that of safe_sum; the sum is that of
\* safe_sum whenever the total of every selection of the inputs fits the
\* context precision of Prec significant digits.
C4_PartitionInvarianceWithinPrecision ==
  (pc = "reduced" /\ AllNumbers(numbers)) =>
    LET whole == safe_sum(numbers)
    IN  /\ ret.st = "return"
        /\ whole.st = "return"
        /\ ret.val.count = whole.val.count
        /\ SelectionsFit(numbers) => DecEq(ret.val.sum, whole.val.sum)

\* C4 witness: three well-formed numbers, a 29-digit one among them, whose
\* selections all fit, were cut into MaxChunks chunks (one of them empty) and
\* the partials were reduced in another order than the chunks'
C4_Witness ==
  /\ pc = "reduced"
  /\ Len(numbers) = MaxLen
  /\ AllNumbers(numbers)
  /\ SelectionsFit(numbers)
  /\ \E j \in 1..Len(numbers) : numbers[j] = PyStr(TxtBig)
  /\ Len(partials) = MaxChunks
  /\ \E j \in 1..Len(partials) : partials[j][2] = 0
  /\ partials[1] # partial_sum_chunk(SubSeq(numbers, 1, partials[1][2])).val
  /\ ret.st = "return"
  /\ ret.val.count = MaxLen

----------------------------------------------------------------------------
(* Claims on compute_sum (SpecCompute) *)

\* the stepwise model and the operator compute_sum agree
ComputeSumAgrees ==
  pc = "done" => ret = compute_sum(numbers, iterable, strategy, HAS_NUMPY)

\* C5: with strategy "auto" and numpy present, numpy_sum is the first
\* function called and, if it raises, the call ends as safe_sum ends on the
\* same input; with numpy absent numpy_sum is never called and the call ends
\* as safe_sum ends; so an auto call raises only if safe_sum raises.
C5_AutoFallsBackToPrecise ==
  strategy = "auto" =>
    /\ (HAS_NUMPY /\ called # <<>>) => called[1] = "numpy_sum"
    /\ (HAS_NUMPY /\ pc = "done" /\ numpy_sum(numbers, iterable, TRUE).st = "raise") =>
         /\ ret = safe_sum(numbers)
         /\ called = <<"numpy_sum", "safe_sum">>
    /\ ~HAS_NUMPY => \A j \in 1..Len(called) : called[j] # "numpy_sum"
    /\ (~HAS_NUMPY /\ pc = "done") => ret = safe_sum(numbers)
    /\ (pc = "done" /\ ret.st = "raise") => safe_sum(numbers) = ret

\* C5 witness: an auto call on which numpy_sum raised (numbers is a
\* generator) has returned safe_sum's result
C5_Witness ==
  /\ strategy = "auto"
  /\ HAS_NUMPY
  /\ pc = "done"
  /\ Len(numbers) = MaxLen
  /\ numpy_sum(numbers, iterable, TRUE).st = "raise"
  /\ called = <<"numpy_sum", "safe_sum">>
  /\ ret.st = "return"
  /\ ret.val.count = MaxLen

\* C6 (as stated): strategy "numpy" without numpy raises an error of the
\* utility's own taxonomy that is neither InvalidNumber nor reported as an
\* unexpected error, returns nothing and does not call safe_sum.
C6_StrategyUnavailableInTaxonomy ==
  (strategy = "numpy" /\ ~HAS_NUMPY /\ pc = "done") =>
    /\ ret.st = "raise"
    /\ IsSumError(ret.exc)
    /\ ret.exc # "InvalidNumberError"
    /\ ReportedAs(ret.exc) # "Unexpected error"
    /\ called = <<"numpy_sum">>

\* C6 (amended): strategy "numpy" without numpy raises RuntimeError, which
\* is not InvalidNumberError, is outside the SumError classes and is
\* reported by the callers as an unexpected error; nothing is returned and
\* safe_sum is not called.
C6_NumpyUnavailableRaisesRuntimeError ==
  (strategy = "numpy" /\ ~HAS_NUMPY /\ pc = "done") =>
    /\ ret.st = "raise"
    /\ ret.exc = "RuntimeError"
    /\ ~IsSumError(ret.exc)
    /\ ReportedAs(ret.exc) = "Unexpected error"
    /\ ret.val = NoVal
    /\ called = <<"numpy_sum">>

\* C6 witness: an explicit numpy request without numpy, on an input that
\* safe_sum sums, has ended
C6_Witness ==
  /\ strategy = "numpy"
  /\ ~HAS_NUMPY
  /\ pc = "done"
  /\ Len(numbers) = MaxLen
  /\ safe_sum(numbers).st = "return"
  /\ ret.st = "raise"

\* the functions a call with strategy "auto" goes through: numpy_sum first
\* if numpy is present, safe_sum if numpy is absent or numpy_sum raised
AutoCalls(ns, kind, has) ==
  IF ~has THEN <<"safe_sum">>
  ELSE IF numpy_sum(ns, kind, has).st = "return" THEN <<"numpy_sum">>
  ELSE <<"numpy_sum", "safe_sum">>

\* C12: a strategy other than "numpy" and "safe" is never refused and is
\* handled as "auto" is: the call goes through the functions an auto call
\* goes through (numpy_sum first when numpy is present, safe_sum after it
\* raised or when numpy is absent), ends as the auto call on the same input
\* ends, and raises only what safe_sum raises on that input.
C12_UnrecognisedStrategyIsAuto ==
  (strategy \notin {"numpy", "safe"} /\ pc = "done") =>
    /\ called = AutoCalls(numbers, iterable, HAS_NUMPY)
    /\ ret = compute_sum(numbers, iterable, "auto", HAS_NUMPY)
    /\ (HAS_NUMPY /\ numpy_sum(numbers, iterable, TRUE).st = "return") =>
         ret = numpy_sum(numbers, iterable, TRUE)
    /\ ret.st = "raise" => ret = safe_sum(numbers)

\* C12 witness: a call with the unrecognised strategy "precise", numpy
\* present, has returned numpy_sum's result, which is not safe_sum's
C12_Witness ==
  /\ strategy = "precise"
  /\ HAS_NUMPY
  /\ pc = "done"
  /\ Len(numbers) = MaxLen
  /\ called = <<"numpy_sum">>
  /\ ret.st = "return"
  /\ ret = numpy_sum(numbers, iterable, TRUE)
  /\ ret # safe_sum(numbers)

----------------------------------------------------------------------------
(* Claims on the /sum endpoint (SpecHttp) *)

\* C7 (as stated, in its weakest reading): whether or not numpy is present,
\* a request with an element that Decimal() refuses is answered 400 without
\* sum or count; an answer that is neither 200 nor 400 is a 500 whose detail
\* holds the request id; a 200 is given only when every element was parsed,
\* with count = len(numbers).
C7_HttpAllOrNothing ==
  (pc = "done" /\ numbers # <<>>) =>
    /\ FirstRejected(numbers) # 0 =>
         /\ response.status = 400
         /\ "sum" \notin DOMAIN response
         /\ "count" \notin DOMAIN response
    /\ response.status \notin {200, 400} =>
         /\ response.status = 500
         /\ response.detail.arg \in (Headers \cup Uuids) \ {""}
         /\ header # "" => response.detail.arg = header
    /\ response.status = 200 =>
         /\ FirstRejected(numbers) = 0
         /\ response.count = Len(numbers)

----------------------------------------------------------------------------
(* Claims on the console programs (SpecCount, SpecCli) *)

\* C8 (as stated): in either console program, the count is accepted exactly
\* when the trimmed text is an integer n >= 1, and then n is what is returned;
\* a blank text fails with the variant's empty-count error and any other
\* refused text with another error; and every refused count is reported by
\* the caller's handler of validation errors ("Invalid input" in adder.py,
\* "Input error" in adder1.py), never by its handler of unexpected errors.
C8_ParseCountValidation ==
  pc # "count_prompt" =>
    LET p == IntOfStr(strip(raw))
        valid == strip(raw) # <<>> /\ p[1] /\ p[2] >= 1
    IN  /\ (ret.st = "return") <=> valid
        /\ valid => n = p[2]
        /\ strip(raw) = <<>> =>
             /\ ret.st = "raise"
             /\ ret.arg.text \in {"Empty input for count", "Count required"}
        /\ (strip(raw) # <<>> /\ ~valid) =>
             /\ ret.st = "raise"
             /\ ret.arg.text \notin {"Empty input for count", "Count required"}
        /\ ~valid =>
             /\ out # <<>>
             /\ out[Len(out)].prefix = (IF variant = "adder" THEN "Invalid input" ELSE "Input error")

\* C9 (as stated): the input phase of adder.py ends only with a count n >= 1
\* and exactly n tokens, each of them a numeric token (one Decimal() accepts),
\* and the run never reports an invalid number once the input phase is over.
C9_InvalidEntriesReprompt ==
  /\ (pc \in {"sum", "done"} /\ ret.exc # "KeyboardInterrupt") =>
       /\ n >= 1
       /\ Len(inputs) = n
       /\ \A j \in 1..Len(inputs) : ~Rejected(PyStr(inputs[j]))
  /\ \A k \in 1..Len(out) : out[k].prefix # "Input error"

----------------------------------------------------------------------------
(* Claims on stream_sum (SpecStream) *)

\* the indices of the lines that are not blank after trimming
NonBlank(f) == {j \in 1..Len(f) : strip(f[j]) # <<>>}

\* the indices of the non-blank lines the parser refuses
Refused(f, prs) == {j \in NonBlank(f) : StreamParse(prs, strip(f[j])).k = "InvalidNumberError"}

\* the non-blank lines of f, in order, as str values
RECURSIVE NonBlankLines(_)
NonBlankLines(f) ==
  IF f = <<>> THEN <<>>
  ELSE IF strip(Head(f)) = <<>> THEN NonBlankLines(Tail(f))
  ELSE <<PyStr(Head(f))>> \o NonBlankLines(Tail(f))

\* C10 (as stated, the sum taken only where no total exceeds the precision):
\* blank lines count for nothing; a call that returns has count = the number
\* of non-blank lines and sum = the total of their values; when the parser
\* refuses some non-blank line, the call has raised InvalidNumberError for the
\* first such line, and has read no line after it.
C10_StreamSum ==
  pc = "done" =>
    /\ ret.st = "return" =>
         /\ ret.val.count = Cardinality(NonBlank(file_obj))
         /\ (AllNumbers(NonBlankLines(file_obj)) /\ PrefixesFit(NonBlankLines(file_obj))) =>
              Cmp(ret.val.sum, ExactTotal(NonBlankLines(file_obj))) = 0
    /\ Refused(file_obj, parser) # {} =>
         LET first == CHOOSE j \in Refused(file_obj, parser) :
                        \A m \in Refused(file_obj, parser) : j <= m
         IN  /\ ret = Raise("InvalidNumberError", strip(file_obj[first]))
             /\ i = first

----------------------------------------------------------------------------
(* Claims on choose_strategy_and_sum (SpecChoose) *)

\* every input is an int or a float, numpy is there, and there are at least
\* FastPathMin inputs
FastPathAsked ==
  /\ \A j \in 1..Len(numbers) : numbers[j].ty \in {"int", "float"}
  /\ HAS_NUMPY
  /\ Len(numbers) >= FastPathMin

\* the stepwise model returns what the function computed at once returns
\* (on the lists short enough to compute at once)
ChooseAgrees ==
  (pc = "done" /\ Len(numbers) <= MaxLen) => ret = choose_strategy_and_sum(numbers, HAS_NUMPY)

\* C11: choose_strategy_and_sum calls fast_sum_float exactly when every input
\* is an int or a float, numpy is available and there are at least 1000
\* inputs; otherwise it calls safe_sum_decimals; a result of the Decimal path
\* carries strategy "decimal", a result of the fast path does not, and either
\* result carries count = len(numbers).
C11_FastPathIffLargeNumeric ==
  pc # "choose_strategy_and_sum" =>
    /\ called = <<"fast_sum_float">> <=> FastPathAsked
    /\ called = <<"safe_sum_decimals">> <=> ~FastPathAsked
    /\ (pc = "done" /\ ret.st = "return") =>
         /\ ret.val.count = Len(numbers)
         /\ ret.val.strategy = "decimal" <=> ~FastPathAsked

\* a list of exactly FastPathMin ints and floats went through the fast path
\* and came back with its count
C11_Witness ==
  /\ pc = "done"
  /\ ret.st = "return"
  /\ Len(numbers) = FastPathMin
  /\ called = <<"fast_sum_float">>
  /\ ret.val.strategy = "numpy_float"
  /\ ret.val.count = FastPathMin
  /\ \E j \in 1..Len(numbers) : numbers[j].ty = "float"

====
